---------------------------- MODULE Spec2Model ----------------------------
(***************************************************************************)
(* A model of the URL shortener in its two builds:                         *)
(*   variant = "json"   using-json/main.go: an in-process map, a counter,  *)
(*                      one mutex and a snapshot file store.json;          *)
(*   variant = "redis"  the gin build (main.go of using-redis and          *)
(*                      redis-client.go): every record is a Redis key,     *)
(*                      the counter is the key url_id_counter.             *)
(* A request handler is a goroutine; each step below is one access of      *)
(* shared state (the map, the mutex, a file, one Redis command) together   *)
(* with the local computation around it.  Strings are sequences of         *)
(* one-character strings, so that the prefix test, the code pattern and    *)
(* the base-62 encoding are computed as the code computes them.  The clock *)
(* counts seconds from an arbitrary instant of a running server.           *)
(***************************************************************************)
EXTENDS Integers, Sequences, FiniteSets, TLC

(* ------------------------------ bounds -------------------------------- *)
\* The clock stops at MaxNow, a record is clicked at most MaxClicks times, the
\* counter is incremented up to MaxID above its value at startup, and at most
\* MaxInFlight goroutines are inside a handler or the sweep at a time.
MaxNow == 2

MaxClicks == 2

MaxID == 1

MaxInFlight == 2

\* The limiter is followed for MaxElapsed seconds.
MaxElapsed == 150

(* ------------------------ program constants --------------------------- *)
\* rateLimitWindow = 1 * time.Minute, in seconds, and maxRequests.
rateLimitWindow == 60

maxRequests == 5

(* ----------------------------- strings -------------------------------- *)
Empty == << >>

base62 ==
  << "0","1","2","3","4","5","6","7","8","9",
     "a","b","c","d","e","f","g","h","i","j","k","l","m",
     "n","o","p","q","r","s","t","u","v","w","x","y","z",
     "A","B","C","D","E","F","G","H","I","J","K","L","M",
     "N","O","P","Q","R","S","T","U","V","W","X","Y","Z" >>

AlphaNum == { base62[i] : i \in 1..62 }

HasPrefix(s, pre) ==
  /\ Len(s) >= Len(pre)
  /\ SubSeq(s, 1, Len(pre)) = pre

isValidURL(url) ==
  \/ HasPrefix(url, <<"h","t","t","p",":","/","/">>)
  \/ HasPrefix(url, <<"h","t","t","p","s",":","/","/">>)

isValidCode(c) ==
  /\ Len(c) >= 1
  /\ \A i \in 1..Len(c) : c[i] \in AlphaNum

RECURSIVE encodeLoop(_, _)
encodeLoop(n, result) ==
  IF n > 0 THEN encodeLoop(n \div 62, <<base62[(n % 62) + 1]>> \o result)
  ELSE result

encodeBase62(n) ==
  IF n = 0 THEN <<"0">> ELSE encodeLoop(n, << >>)

(* ------------------------------ inputs -------------------------------- *)
\* Two request goroutines and the goroutine of the cleanup ticker.
Workers == {"w1", "w2"}

Cleaner == "cleaner"

Procs == Workers \cup {Cleaner}

NoProc == "nobody"

\* The goroutine of the requests of a client that sends one at a time.
Client == "w1"

CounterKey == <<"u","r","l","_","i","d","_","c","o","u","n","t","e","r">>

GoodURL == <<"h","t","t","p",":","/","/","a">>

BadURL == <<"f","t","p",":","/","/","a">>

CustomCodes == {Empty, <<"1">>, CounterKey}

TTLs == {0, 1}

PathCodes == {<<"1">>, CounterKey}

\* The request bodies: every custom code and TTL with a good URL, and one
\* body with a URL that is refused.
Bodies ==
  [URL : {GoodURL}, CustomCode : CustomCodes, ExpirySeconds : TTLs]
    \cup {[URL |-> BadURL, CustomCode |-> Empty, ExpirySeconds |-> 0]}

\* The in-process build, whose state includes the two files, is explored with
\* the requests that state a TTL.
JsonBodies == { b \in Bodies : b.ExpirySeconds # 0 \/ b.URL = BadURL }

DefaultExpiry == 7 * 24 * 3600

NoBody == [URL |-> Empty, CustomCode |-> Empty, ExpirySeconds |-> 0]

NoData == [LongURL |-> Empty, Clicks |-> 0, CreatedAt |-> 0, Expiry |-> 0]

NoResp == [proc |-> NoProc, handler |-> "none", status |-> 0]

NoFile == [kind |-> "absent"]

Truncated == [kind |-> "partial", size |-> 0]

\* startCleanupTicker (main line 277) and the goroutine that calls
\* cleanRateLimiters (main lines 269-274) run from the start of main.
TasksRunning == [ticker |-> "running", evictor |-> "running"]

NoneIssued == [codes |-> {}, prev |-> 0, id |-> 0, dup |-> FALSE, base |-> 0]

VARIABLES
  variant,     \* which build runs: "json" or "redis"
  now,         \* time.Now().Unix()
  exited,      \* the process has ended (log.Fatalf, or a fatal runtime error)
  idCounter,   \* json: var idCounter int64
  urlStore,    \* json: var urlStore map[string]URLData
  mutex,       \* json: var mutex sync.Mutex, its holder or NoProc
  tmpFile,     \* json: content of store.json.tmp
  storeFile,   \* json: content of store.json
  Rdb,         \* redis: the keyspace, key -> value
  pc,          \* where each goroutine stands
  op,          \* the handler each goroutine runs
  body,        \* shortenHandler: the decoded request body
  code,        \* the handler's code
  data,        \* the handler's URLData
  cleanNow,    \* cleanUpExpiredLinks: its now
  fileBytes,   \* saveStore: the marshalled snapshot
  fd,          \* saveStore: where the file opened by os.WriteFile is now
  todo,        \* ListURLs: keys the scan has still to visit; then the codes to delete
  results,     \* ListURLs: the entries gathered so far
  resp,        \* the response written by the step just taken, with its goroutine
  rateLimiters, \* gin build: var rateLimiters map[string]*rateLimiter
  stopCleanup, \* gin build: the channel stopCleanup of main is closed
  tasks,       \* gin build: the two background goroutines, running or returned
  windowStart, \* history: per client, when its count was last set to 1
  admitted,    \* history: per client, the admissions of the rateLimitWindow
               \*          seconds up to its last one, as time -> how many
  unevicted,   \* history: rateLimiters as it would be had cleanRateLimiters
               \*          never run
  issued,      \* history: the codes allocated so far, the last two counter values,
               \*          and the counter at startup
  swept        \* history: the codes whose records were expired when the sweep began

vars == << variant, now, exited, idCounter, urlStore, mutex, tmpFile, storeFile,
           Rdb, pc, op, body, code, data, cleanNow, fileBytes, fd, todo, results,
           resp, rateLimiters, stopCleanup, tasks, windowStart, admitted, unevicted,
           issued,
           swept >>

limVars == << rateLimiters, windowStart, admitted, unevicted >>

mainVars == << stopCleanup, tasks >>

jsonVars == << idCounter, urlStore, mutex, tmpFile, storeFile >>

localVars == << op, body, code, data, cleanNow, fileBytes, fd, todo, results >>

(* --------------------------- initial state ---------------------------- *)
Init ==
  /\ variant \in {"json", "redis"}
  /\ now = 0
  /\ exited = FALSE
  /\ idCounter = 0
  /\ urlStore = << >>
  /\ mutex = NoProc
  /\ tmpFile = NoFile
  /\ storeFile = NoFile
  /\ Rdb = << >>
  /\ pc = [p \in Procs |-> "idle"]
  /\ op = [p \in Procs |-> "none"]
  /\ body = [p \in Procs |-> NoBody]
  /\ code = [p \in Procs |-> Empty]
  /\ data = [p \in Procs |-> NoData]
  /\ cleanNow = 0
  /\ fileBytes = [p \in Procs |-> NoFile]
  /\ fd = [p \in Procs |-> "none"]
  /\ todo = [p \in Procs |-> {}]
  /\ results = [p \in Procs |-> {}]
  /\ resp = NoResp
  /\ rateLimiters = << >>
  /\ stopCleanup = FALSE
  /\ tasks = TasksRunning
  /\ windowStart = << >>
  /\ admitted = << >>
  /\ unevicted = << >>
  /\ issued = NoneIssued
  /\ swept = {}

(* ----------------------------- helpers -------------------------------- *)
Put(m, k, v) == [x \in DOMAIN m \cup {k} |-> IF x = k THEN v ELSE m[x]]

Remove(m, ks) == [x \in DOMAIN m \ ks |-> m[x]]

Set(f, p, v) == [f EXCEPT ![p] = v]

\* Goroutine p goes on to the step `at` of handler o, with these locals.
Step(p, at, o, b, c, d) ==
  /\ pc' = Set(pc, p, at)
  /\ op' = Set(op, p, o)
  /\ body' = Set(body, p, b)
  /\ code' = Set(code, p, c)
  /\ data' = Set(data, p, d)
  /\ resp' = NoResp

\* Goroutine p, running handler h, writes the response r and returns.
Reply(p, h, r) ==
  /\ pc' = Set(pc, p, "idle")
  /\ op' = Set(op, p, "none")
  /\ body' = Set(body, p, NoBody)
  /\ code' = Set(code, p, Empty)
  /\ data' = Set(data, p, NoData)
  /\ resp' = [proc |-> p, handler |-> h] @@ r

\* The process exits: no goroutine takes a further step.
Halted == [q \in Procs |-> "exited"]

\* The goroutines inside a handler; a new request, or the ticker, is served
\* while fewer than MaxInFlight are.
InFlight == { q \in Procs : pc[q] \notin {"idle", "exited"} }

Accepts(p) == pc[p] = "idle" /\ Cardinality(InFlight) < MaxInFlight

\* The allocation of counter value n is added to the history.
Issue(n) ==
  [codes |-> issued.codes \cup {encodeBase62(n)}, prev |-> issued.id, id |-> n,
   dup |-> issued.dup \/ encodeBase62(n) \in issued.codes, base |-> issued.base]

(* ------------------------- time.Time formatting ----------------------- *)
\* Days since 1970-01-01 to the civil date <<year, month, day>>.
CivilFromDays(z0) ==
  LET z == z0 + 719468
      era == z \div 146097
      doe == z - era * 146097
      yoe == (doe - doe \div 1460 + doe \div 36524 - doe \div 146096) \div 365
      doy == doe - (365 * yoe + yoe \div 4 - yoe \div 100)
      mp == (5 * doy + 2) \div 153
      d == doy - (153 * mp + 2) \div 5 + 1
      m == IF mp < 10 THEN mp + 3 ELSE mp - 9
      y == yoe + era * 400 + (IF m <= 2 THEN 1 ELSE 0)
  IN  << y, m, d >>

DaysFromCivil(y0, m, d) ==
  LET y == IF m <= 2 THEN y0 - 1 ELSE y0
      era == y \div 400
      yoe == y - era * 400
      doy == (153 * (IF m > 2 THEN m - 3 ELSE m + 9) + 2) \div 5 + d - 1
      doe == yoe * 365 + yoe \div 4 - yoe \div 100 + doy
  IN  era * 146097 + doe - 719468

\* time.Unix(t, 0).UTC().Format(time.RFC3339): the fields of "YYYY-MM-DDTHH:MM:SSZ".
FormatRFC3339(t) ==
  LET days == t \div 86400
      secs == t % 86400
      ymd == CivilFromDays(days)
  IN  [year |-> ymd[1], month |-> ymd[2], day |-> ymd[3],
       hour |-> secs \div 3600, min |-> (secs % 3600) \div 60, sec |-> secs % 60]

\* time.Parse(time.RFC3339, s): a four-digit year is required.
ParseRFC3339(s) ==
  IF s.year < 0 \/ s.year > 9999 THEN [err |-> TRUE, unix |-> 0]
  ELSE [err |-> FALSE,
        unix |-> DaysFromCivil(s.year, s.month, s.day) * 86400
                   + s.hour * 3600 + s.min * 60 + s.sec]

(* ---------------------- json.MarshalIndent of Store ------------------- *)
RECURSIVE Digits(_)
Digits(n) ==
  IF n < 0 THEN 1 + Digits(-n)
  ELSE IF n < 10 THEN 1 ELSE 1 + Digits(n \div 10)

RECURSIVE SumOver(_, _)
SumOver(S, f) ==
  IF S = {} THEN 0
  ELSE LET x == CHOOSE y \in S : TRUE IN f[x] + SumOver(S \ {x}, f)

\* Bytes of one "code": {...} entry of the indented document.
EntrySize(c, d) ==
  (Len(c) + 10) + (Len(d.LongURL) + 22) + (Digits(d.Clicks) + 18)
    + (Digits(d.CreatedAt) + 22) + (Digits(d.Expiry) + 17) + 6

\* Bytes of the whole document.
FileSize(f) ==
  IF f.kind = "partial" THEN f.size
  ELSE IF f.kind = "absent" THEN 0
  ELSE IF DOMAIN f.URLStore = {} THEN 37 + Digits(f.IDCounter)
  ELSE 40 + Digits(f.IDCounter) + (Cardinality(DOMAIN f.URLStore) - 1)
         + SumOver(DOMAIN f.URLStore,
                   [c \in DOMAIN f.URLStore |-> EntrySize(c, f.URLStore[c])])

\* What a file holds after `bytes` is written at offset 0 over `old`.
WriteOver(old, bytes) ==
  IF old = bytes THEN bytes
  ELSE IF FileSize(bytes) >= FileSize(old) THEN bytes
  ELSE [kind |-> "partial", size |-> FileSize(old)]

(* ======================== expiry, shared ============================== *)
\* IsExpired of the specification, the reference the code is held against:
\* strictly after createdAt + ttlSeconds.
IsExpired(d, t) == t > d.CreatedAt + d.Expiry

\* The expiry test of cleanUpExpiredLinks (using-json/main.go line 96).
SweepExpired(d, t) == t > d.CreatedAt + d.Expiry

\* Variants of the test below: one that counts the deadline itself as
\* expired, and one that finds nothing expired.
RedirectExpiredAtDeadline(d, t) == d.Expiry # 0 /\ t >= d.CreatedAt + d.Expiry

RedirectNeverExpired(d, t) == FALSE

\* The expiry test of handleRedirects (using-json/main.go line 186, gin build 164).
RedirectExpired(d, t) == d.Expiry # 0 /\ t > d.CreatedAt + d.Expiry

\* "is_expired" of infoHandler (using-json/main.go line 222, gin build 195).
InfoIsExpired(d, t) == t > d.CreatedAt + d.Expiry

\* "is_expired" of listHandle (using-json/main.go line 250) and of ListURLs.
ListIsExpired(d, t) == t > d.CreatedAt + d.Expiry

\* Variant: the expiry as the caller gave it.
ExpiryAsGiven(b) == b.ExpirySeconds

\* expiry := body.ExpirySeconds; if expiry == 0 { expiry = 7 * 24 * 3600 }
ExpiryOf(b) == IF b.ExpirySeconds = 0 THEN DefaultExpiry ELSE b.ExpirySeconds

NewURLData(b, t) ==
  [LongURL |-> b.URL, Clicks |-> 0, CreatedAt |-> t, Expiry |-> ExpiryOf(b)]

\* The answer of infoHandler: of its fields the model keeps "is_expired", and
\* with it the code asked for.
InfoOf(c, d, t) ==
  [status |-> 200, code |-> c, is_expired |-> InfoIsExpired(d, t)]

\* One element of the answer of listHandle: "code" and "is_expired" are kept.
LinkOf(c, d, t) ==
  [code |-> c, is_expired |-> ListIsExpired(d, t)]

(* ====================== using-json/main.go ============================ *)
Snapshot == [kind |-> "snapshot", IDCounter |-> idCounter, URLStore |-> urlStore]

\* shortenHandler, lines 117-138: decode and validate the body; the request
\* then waits for the mutex.
JShortenBegin(p, b) ==
  /\ variant = "json"
  /\ Accepts(p)
  /\ isValidURL(b.URL) /\ b.CustomCode = Empty => idCounter < issued.base + MaxID
  /\ IF b.URL = Empty \/ ~isValidURL(b.URL)
       THEN Reply(p, "shorten", [status |-> 400])
       ELSE Step(p, "s_lock", "shorten", b, Empty, NoData)
  /\ UNCHANGED << variant, mainVars, limVars, now, exited, jsonVars, Rdb, cleanNow, fileBytes, fd,
                  todo, results, issued, swept >>

\* Variants: a lookup that finds no code, and a handler that takes no lock.
JCodeNeverInUse(c) == FALSE

ShortenTakesNoLock(p) == TRUE

\* _, exists := urlStore[body.CustomCode] (line 149).
JCodeInUse(c) == c \in DOMAIN urlStore

\* The mutex as shortenHandler takes it (line 140).
ShortenMayLock(p) == mutex = NoProc

\* shortenHandler, lines 140-157: lock, then choose the code.  The deferred
\* unlock runs with the 400 and 409 answers.
JShortenCode(p) ==
  /\ pc[p] = "s_lock"
  /\ ShortenMayLock(p)
  /\ LET custom == body[p].CustomCode IN
     IF custom # Empty
       THEN IF ~isValidCode(custom)
              THEN /\ Reply(p, "shorten", [status |-> 400])
                   /\ UNCHANGED << idCounter, mutex, issued >>
              ELSE IF JCodeInUse(custom)
                     THEN /\ Reply(p, "shorten", [status |-> 409])
                          /\ UNCHANGED << idCounter, mutex, issued >>
                     ELSE /\ Step(p, "s_put", "shorten", body[p], custom, NoData)
                          /\ mutex' = p
                          /\ UNCHANGED << idCounter, issued >>
       ELSE /\ idCounter < issued.base + MaxID
            /\ idCounter' = idCounter + 1
            /\ issued' = Issue(idCounter + 1)
            /\ Step(p, "s_put", "shorten", body[p], encodeBase62(idCounter + 1), NoData)
            /\ mutex' = p
  /\ UNCHANGED << variant, mainVars, limVars, now, exited, urlStore, tmpFile, storeFile, Rdb,
                  cleanNow, fileBytes, fd, todo, results, swept >>

\* shortenHandler, lines 159-169: store the record.
JShortenPut(p) ==
  /\ pc[p] = "s_put"
  /\ urlStore' = Put(urlStore, code[p], NewURLData(body[p], now))
  /\ UNCHANGED swept
  /\ Step(p, "sv_marshal", "shorten", NoBody, code[p], NoData)
  /\ UNCHANGED << variant, mainVars, limVars, now, exited, idCounter, mutex, tmpFile, storeFile, Rdb,
                  cleanNow, fileBytes, fd, todo, results, issued >>

\* saveStore, lines 46-54: marshal the counter and the map.
SaveMarshal(p) ==
  /\ pc[p] = "sv_marshal"
  /\ fileBytes' = Set(fileBytes, p, Snapshot)
  /\ Step(p, "sv_open", op[p], body[p], code[p], data[p])
  /\ UNCHANGED << variant, mainVars, limVars, now, exited, jsonVars, Rdb, cleanNow,
                  fd, todo, results, issued, swept >>

\* saveStore, line 57, os.WriteFile: open store.json.tmp with O_CREATE|O_TRUNC.
SaveOpen(p) ==
  /\ pc[p] = "sv_open"
  /\ tmpFile' = Truncated
  /\ fd' = Set(fd, p, "tmp")
  /\ Step(p, "sv_write", op[p], body[p], code[p], data[p])
  /\ UNCHANGED << variant, mainVars, limVars, now, exited, idCounter, urlStore, mutex, storeFile, Rdb,
                  cleanNow, fileBytes, todo, results, issued, swept >>

\* saveStore, line 57, os.WriteFile: write the bytes and close.  The open file
\* is the one a rename has moved meanwhile, if any.
SaveWrite(p) ==
  /\ pc[p] = "sv_write"
  /\ CASE fd[p] = "tmp" ->
            /\ tmpFile' = WriteOver(tmpFile, fileBytes[p])
            /\ UNCHANGED storeFile
       [] fd[p] = "store" ->
            /\ storeFile' = WriteOver(storeFile, fileBytes[p])
            /\ UNCHANGED tmpFile
       [] OTHER -> UNCHANGED << tmpFile, storeFile >>
  /\ fd' = Set(fd, p, "none")
  /\ fileBytes' = Set(fileBytes, p, NoFile)
  /\ Step(p, "sv_rename", op[p], body[p], code[p], data[p])
  /\ UNCHANGED << variant, mainVars, limVars, now, exited, idCounter, urlStore, mutex, Rdb,
                  cleanNow, todo, results, issued, swept >>

\* What the caller of saveStore answers once it returns.
AfterSave(p) ==
  CASE op[p] = "shorten" -> [status |-> 200, short_url |-> code[p]]
    [] op[p] = "redirect" -> [status |-> 302]
    [] op[p] = "delete" -> [status |-> 204, code |-> code[p]]
    [] OTHER -> [status |-> 0]

\* saveStore, lines 62-65: rename store.json.tmp over store.json; log.Fatalf
\* when the temporary file is gone.  Then the caller answers, and the deferred
\* mutex.Unlock() runs in the callers that locked.
SaveRename(p) ==
  /\ pc[p] = "sv_rename"
  /\ IF tmpFile = NoFile
       THEN /\ exited' = TRUE
            /\ pc' = Halted
            /\ resp' = NoResp
            /\ UNCHANGED << tmpFile, storeFile, fd, mutex, op, body, code,
                            data, cleanNow, swept >>
       ELSE /\ storeFile' = tmpFile
            /\ tmpFile' = NoFile
            /\ fd' = [q \in Procs |-> IF fd[q] = "tmp" THEN "store"
                                      ELSE IF fd[q] = "store" THEN "unlinked"
                                      ELSE fd[q]]
            /\ Reply(p, op[p], AfterSave(p))
            /\ mutex' = IF op[p] = "redirect" THEN mutex ELSE NoProc
            /\ cleanNow' = IF p = Cleaner THEN 0 ELSE cleanNow
            /\ swept' = IF p = Cleaner THEN {} ELSE swept
            /\ UNCHANGED exited
  /\ UNCHANGED << variant, mainVars, limVars, now, idCounter, urlStore, Rdb, fileBytes, todo, results,
                  issued >>

\* handleRedirects, lines 181-190: the expiry test on a first read of the map.
JRedirectCheck(p, c) ==
  /\ variant = "json"
  /\ Accepts(p)
  /\ IF c \in DOMAIN urlStore /\ RedirectExpired(urlStore[c], now)
       THEN Reply(p, "redirect", [status |-> 410])
       ELSE Step(p, "r_read", "redirect", NoBody, c, NoData)
  /\ UNCHANGED << variant, mainVars, limVars, now, exited, jsonVars, Rdb, cleanNow, fileBytes, fd,
                  todo, results, issued, swept >>

\* handleRedirects, lines 192-193 and 198: a second read of the map.
JRedirectRead(p) ==
  /\ pc[p] = "r_read"
  /\ code[p] \in DOMAIN urlStore => urlStore[code[p]].Clicks < MaxClicks
  /\ IF code[p] \in DOMAIN urlStore
       THEN Step(p, "r_write", "redirect", NoBody, code[p],
                 [urlStore[code[p]] EXCEPT !.Clicks = @ + 1])
       ELSE Reply(p, "redirect", [status |-> 404])
  /\ UNCHANGED << variant, mainVars, limVars, now, exited, jsonVars, Rdb, cleanNow, fileBytes, fd,
                  todo, results, issued, swept >>

\* handleRedirects, line 194: write the record back.
JRedirectWrite(p) ==
  /\ pc[p] = "r_write"
  /\ urlStore' = Put(urlStore, code[p], data[p])
  /\ Step(p, "sv_marshal", "redirect", NoBody, code[p], NoData)
  /\ UNCHANGED << variant, mainVars, limVars, now, exited, idCounter, mutex, tmpFile, storeFile, Rdb,
                  cleanNow, fileBytes, fd, todo, results, issued, swept >>

\* infoHandler, lines 203-226, from mutex.Lock() to the deferred unlock.
JInfo(p, c) ==
  /\ variant = "json"
  /\ Accepts(p)
  /\ mutex = NoProc
  /\ IF c \notin DOMAIN urlStore
       THEN Reply(p, "info", [status |-> 404])
       ELSE Reply(p, "info", InfoOf(c, urlStore[c], now))
  /\ UNCHANGED << variant, mainVars, limVars, now, exited, jsonVars, Rdb, cleanNow, fileBytes, fd,
                  todo, results, issued, swept >>

\* listHandle, lines 230-255, from mutex.Lock() to the deferred unlock.
JList(p) ==
  /\ variant = "json"
  /\ Accepts(p)
  /\ mutex = NoProc
  /\ Reply(p, "list", [status |-> 200,
               links |-> { LinkOf(c, urlStore[c], now) : c \in DOMAIN urlStore }])
  /\ UNCHANGED << variant, mainVars, limVars, now, exited, jsonVars, Rdb, cleanNow, fileBytes, fd,
                  todo, results, issued, swept >>

\* deleteHandle, lines 259-274: lock, look the code up, delete it.
JDelete(p, c) ==
  /\ variant = "json"
  /\ Accepts(p)
  /\ mutex = NoProc
  /\ IF c \notin DOMAIN urlStore
       THEN /\ Reply(p, "delete", [status |-> 404, code |-> c])
            /\ UNCHANGED << urlStore, mutex >>
       ELSE /\ urlStore' = Remove(urlStore, {c})
            /\ mutex' = p
            /\ Step(p, "sv_marshal", "delete", NoBody, c, NoData)
  /\ UNCHANGED swept
  /\ UNCHANGED << variant, mainVars, limVars, now, exited, idCounter, tmpFile, storeFile, Rdb,
                  cleanNow, fileBytes, fd, todo, results, issued >>

\* main, lines 283-291, and cleanUpExpiredLinks, lines 90-99: the ticker
\* fires; lock, read the clock, delete every expired record.
JCleanup ==
  /\ variant = "json"
  /\ Accepts(Cleaner)
  /\ mutex = NoProc
  /\ mutex' = Cleaner
  /\ cleanNow' = now
  /\ LET gone == { c \in DOMAIN urlStore : SweepExpired(urlStore[c], now) } IN
       /\ urlStore' = Remove(urlStore, gone)
       /\ swept' = { c \in DOMAIN urlStore : IsExpired(urlStore[c], now) }
  /\ Step(Cleaner, "sv_marshal", "cleanup", NoBody, Empty, NoData)
  /\ UNCHANGED << variant, mainVars, limVars, now, exited, idCounter, tmpFile, storeFile, Rdb,
                  fileBytes, fd, todo, results, issued >>

\* Whether goroutine p stands at a read of urlStore, and at a write of it.
ReadsMap(p) == pc[p] \in {"r_read", "sv_marshal"}

WritesMap(p) == pc[p] \in {"s_put", "r_write"}

\* Two goroutines reach the map together, one of them writing, and the Go
\* runtime ends the process ("fatal error: concurrent map read and map write").
JMapFatal ==
  /\ variant = "json"
  /\ \E p, q \in Procs : p # q /\ WritesMap(p) /\ (WritesMap(q) \/ ReadsMap(q))
  /\ exited' = TRUE
  /\ pc' = Halted
  /\ resp' = NoResp
  /\ UNCHANGED << variant, mainVars, limVars, now, jsonVars, Rdb, localVars, issued, swept >>

(* ============== the gin build: main.go and redis-client.go ============= *)
\* json.Marshal(data) of SaveURL: the string stored under a code.
MarshalURLData(d) ==
  [kind |-> "object", long_url |-> d.LongURL, clicks |-> d.Clicks,
   created_at |-> d.CreatedAt, expiry |-> d.Expiry]

\* json.Unmarshal([]byte(val), &data) of GetURL: a JSON number is no URLData.
UnmarshalURLData(v) ==
  IF v.kind = "object"
    THEN [err |-> FALSE,
          data |-> [LongURL |-> v.long_url, Clicks |-> v.clicks,
                    CreatedAt |-> v.created_at, Expiry |-> v.expiry]]
    ELSE [err |-> TRUE, data |-> NoData]

\* GetURL, redis-client.go lines 56-65: GET, then unmarshal.
GetURL(c) ==
  IF c \in DOMAIN Rdb THEN UnmarshalURLData(Rdb[c])
  ELSE [err |-> TRUE, data |-> NoData]

\* SaveURL, redis-client.go lines 46-54: the keyspace after SET.
SaveURL(c, d) == Put(Rdb, c, MarshalURLData(d))

\* DeleteURL, redis-client.go lines 67-69: the keyspace after DEL; the error of
\* DEL is nil whether or not the key existed.
DeleteURL(c) == Remove(Rdb, {c})

\* GetNextID, redis-client.go lines 101-103: the value INCR url_id_counter
\* returns; a missing key counts from 0.
GetNextID ==
  IF CounterKey \in DOMAIN Rdb /\ Rdb[CounterKey].kind = "number"
    THEN Rdb[CounterKey].n + 1
    ELSE 1

\* One element of the result of ListURLs (lines 82-92): "code", "expires_at"
\* and "is_expired" are kept; unix is the instant that expires_at was formatted
\* from, kept as history.
EntryOf(c, d, t) ==
  [code |-> c, expires_at |-> FormatRFC3339(d.CreatedAt + d.Expiry),
   is_expired |-> ListIsExpired(d, t), unix |-> d.CreatedAt + d.Expiry]

\* cleanUpExpiredLinks, lines 64-76: the codes of the listing it deletes.
RSweepExpired(e, t) ==
  LET expiresAt == ParseRFC3339(e.expires_at)
  IN  ~expiresAt.err /\ t > expiresAt.unix

\* _, err := GetURL(body.CustomCode); err == nil (lines 116-117).
RCodeInUse(c) == ~GetURL(c).err

\* shortenHandler, lines 94-141: validate, then GET the custom code or INCR
\* the counter, and build the record.
RShortenHandler(p, b) ==
  /\ IF b.URL = Empty \/ ~isValidURL(b.URL)
       THEN /\ Reply(p, "shorten", [status |-> 400])
            /\ UNCHANGED << Rdb, issued >>
       ELSE IF b.CustomCode # Empty
         THEN /\ IF ~isValidCode(b.CustomCode)
                   THEN Reply(p, "shorten", [status |-> 400])
                   ELSE IF RCodeInUse(b.CustomCode)
                     THEN Reply(p, "shorten", [status |-> 409])
                     ELSE Step(p, "s_save", "shorten", b, b.CustomCode,
                               NewURLData(b, now))
              /\ UNCHANGED << Rdb, issued >>
         ELSE /\ Rdb' = Put(Rdb, CounterKey, [kind |-> "number", n |-> GetNextID])
              /\ issued' = Issue(GetNextID)
              /\ Step(p, "s_save", "shorten", b, encodeBase62(GetNextID),
                      NewURLData(b, now))
  /\ UNCHANGED << variant, mainVars, limVars, now, exited, jsonVars, cleanNow, fileBytes, fd,
                  todo, results, swept >>

\* A request that shortenHandler is called with.
RShortenBegin(p, b) ==
  /\ variant = "redis"
  /\ Accepts(p)
  /\ isValidURL(b.URL) /\ b.CustomCode = Empty => GetNextID <= issued.base + MaxID
  /\ RShortenHandler(p, b)

\* shortenHandler, lines 143-150: SaveURL and the answer.
RShortenSave(p) ==
  /\ pc[p] = "s_save"
  /\ Rdb' = SaveURL(code[p], data[p])
  /\ UNCHANGED swept
  /\ Reply(p, "shorten", [status |-> 200, short_url |-> code[p]])
  /\ UNCHANGED << variant, mainVars, limVars, now, exited, jsonVars, cleanNow, fileBytes, fd,
                  todo, results, issued >>

\* handleRedirects, lines 154-168: read the clock, GET, test the expiry.
RRedirectGet(p, c) ==
  /\ variant = "redis"
  /\ Accepts(p)
  /\ ~GetURL(c).err /\ ~RedirectExpired(GetURL(c).data, now)
       => GetURL(c).data.Clicks < MaxClicks
  /\ IF GetURL(c).err
       THEN Reply(p, "redirect", [status |-> 404])
       ELSE IF RedirectExpired(GetURL(c).data, now)
         THEN Reply(p, "redirect", [status |-> 410])
         ELSE Step(p, "r_save", "redirect", NoBody, c,
                   [GetURL(c).data EXCEPT !.Clicks = @ + 1])
  /\ UNCHANGED << variant, mainVars, limVars, now, exited, jsonVars, Rdb, cleanNow, fileBytes, fd,
                  todo, results, issued, swept >>

\* handleRedirects, lines 169-176: SaveURL and the redirect.
RRedirectSave(p) ==
  /\ pc[p] = "r_save"
  /\ Rdb' = SaveURL(code[p], data[p])
  /\ Reply(p, "redirect", [status |-> 302])
  /\ UNCHANGED << variant, mainVars, limVars, now, exited, jsonVars, cleanNow, fileBytes, fd,
                  todo, results, issued, swept >>

\* infoHandler, lines 179-199.
RInfo(p, c) ==
  /\ variant = "redis"
  /\ Accepts(p)
  /\ IF GetURL(c).err
       THEN Reply(p, "info", [status |-> 404])
       ELSE Reply(p, "info", InfoOf(c, GetURL(c).data, now))
  /\ UNCHANGED << variant, mainVars, limVars, now, exited, jsonVars, Rdb, cleanNow, fileBytes, fd,
                  todo, results, issued, swept >>

\* deleteHandle, lines 214-224: DEL; its error is nil, so the answer is 204.
RDelete(p, c) ==
  /\ variant = "redis"
  /\ Accepts(p)
  /\ Rdb' = DeleteURL(c)
  /\ UNCHANGED swept
  /\ Reply(p, "delete", [status |-> 204, code |-> c])
  /\ UNCHANGED << variant, mainVars, limVars, now, exited, jsonVars, cleanNow, fileBytes, fd,
                  todo, results, issued >>

\* The goroutine p leaves ListURLs or the sweep: its locals are dropped.
Forget(p) ==
  /\ todo' = Set(todo, p, {})
  /\ results' = Set(results, p, {})

\* listHandle, lines 201-211, and ListURLs, line 74: SCAN returns the keys.
RListScan(p) ==
  /\ variant = "redis"
  /\ Accepts(p)
  /\ IF DOMAIN Rdb = {}
       THEN /\ Reply(p, "list", [status |-> 200, links |-> {}])
            /\ UNCHANGED << todo, results >>
       ELSE /\ Step(p, "l_get", "list", NoBody, Empty, NoData)
            /\ todo' = Set(todo, p, DOMAIN Rdb)
            /\ results' = Set(results, p, {})
  /\ UNCHANGED << variant, mainVars, limVars, now, exited, jsonVars, Rdb, cleanNow, fileBytes, fd,
                  issued, swept >>

\* startCleanupTicker, lines 323-324, cleanUpExpiredLinks, lines 56-58, and
\* ListURLs, line 74: the ticker fires; read the clock; SCAN returns the keys.
RCleanupScan ==
  /\ variant = "redis"
  /\ tasks.ticker = "running"
  /\ Accepts(Cleaner)
  /\ cleanNow' = now
  /\ swept' = { c \in DOMAIN Rdb : ~GetURL(c).err /\ IsExpired(GetURL(c).data, now) }
  /\ todo' = Set(todo, Cleaner, DOMAIN Rdb)
  /\ results' = Set(results, Cleaner, {})
  /\ Step(Cleaner, IF DOMAIN Rdb = {} THEN "c_del" ELSE "l_get", "cleanup",
          NoBody, Empty, NoData)
  /\ UNCHANGED << variant, mainVars, limVars, now, exited, jsonVars, Rdb, fileBytes, fd, issued >>

\* ListURLs, lines 75-93: the next key of the scan; a key GetURL fails on is
\* skipped.  After the last key ListURLs returns: listHandle answers, and
\* cleanUpExpiredLinks goes through the listing (lines 64-73).
RListGet(p, k) ==
  /\ pc[p] = "l_get"
  /\ k \in todo[p]
  /\ LET got == IF GetURL(k).err THEN results[p]
                ELSE results[p] \cup {EntryOf(k, GetURL(k).data, now)}
         gone == { e.code : e \in { x \in got : RSweepExpired(x, cleanNow) } }
     IN  IF todo[p] # {k}
           THEN /\ todo' = Set(todo, p, todo[p] \ {k})
                /\ results' = Set(results, p, got)
                /\ Step(p, "l_get", op[p], NoBody, Empty, NoData)
           ELSE IF op[p] = "list"
             THEN /\ Reply(p, "list", [status |-> 200,
                                       links |-> { [code |-> e.code,
                                                    is_expired |-> e.is_expired] :
                                                   e \in got }])
                  /\ Forget(p)
             ELSE /\ todo' = Set(todo, p, gone)
                  /\ results' = Set(results, p, got)
                  /\ Step(p, "c_del", op[p], NoBody, Empty, NoData)
  /\ UNCHANGED << variant, mainVars, limVars, now, exited, jsonVars, Rdb, cleanNow, fileBytes, fd,
                  issued, swept >>

\* cleanUpExpiredLinks, line 74: DeleteURL of one expired entry.
RCleanupDel(k) ==
  /\ pc[Cleaner] = "c_del"
  /\ k \in todo[Cleaner]
  /\ Rdb' = DeleteURL(k)
  /\ UNCHANGED swept
  /\ todo' = Set(todo, Cleaner, todo[Cleaner] \ {k})
  /\ Step(Cleaner, "c_del", "cleanup", NoBody, Empty, NoData)
  /\ UNCHANGED << variant, mainVars, limVars, now, exited, jsonVars, cleanNow, fileBytes, fd,
                  results, issued >>

\* cleanUpExpiredLinks, line 78: the loop is over and the sweep returns.
RCleanupDone ==
  /\ pc[Cleaner] = "c_del"
  /\ todo[Cleaner] = {}
  /\ cleanNow' = 0
  /\ swept' = {}
  /\ Forget(Cleaner)
  /\ Reply(Cleaner, "cleanup", [status |-> 0])
  /\ UNCHANGED << variant, mainVars, limVars, now, exited, jsonVars, Rdb, fileBytes, fd, issued >>

(* ============================ both builds ============================= *)
\* The clock advances.
Tick ==
  /\ ~exited
  /\ now < MaxNow
  /\ now' = now + 1
  /\ resp' = NoResp
  /\ UNCHANGED << variant, mainVars, limVars, exited, jsonVars, Rdb, pc, localVars, issued, swept >>

NextJson ==
  \/ \E p \in Workers : \E b \in JsonBodies : JShortenBegin(p, b)
  \/ \E p \in Workers : JShortenCode(p)
  \/ \E p \in Workers : JShortenPut(p)
  \/ \E p \in Procs : SaveMarshal(p)
  \/ \E p \in Procs : SaveOpen(p)
  \/ \E p \in Procs : SaveWrite(p)
  \/ \E p \in Procs : SaveRename(p)
  \/ \E p \in Workers : \E c \in PathCodes : JRedirectCheck(p, c)
  \/ \E p \in Workers : JRedirectRead(p)
  \/ \E p \in Workers : JRedirectWrite(p)
  \/ \E p \in Workers : \E c \in PathCodes : JInfo(p, c)
  \/ \E p \in Workers : JList(p)
  \/ \E p \in Workers : \E c \in PathCodes : JDelete(p, c)
  \/ JCleanup
  \/ JMapFatal
  \/ Tick

NextRedis ==
  \/ \E p \in Workers : \E b \in Bodies : RShortenBegin(p, b)
  \/ \E p \in Workers : RShortenSave(p)
  \/ \E p \in Workers : \E c \in PathCodes : RRedirectGet(p, c)
  \/ \E p \in Workers : RRedirectSave(p)
  \/ \E p \in Workers : \E c \in PathCodes : RInfo(p, c)
  \/ \E p \in Workers : \E c \in PathCodes : RDelete(p, c)
  \/ \E p \in Workers : RListScan(p)
  \/ \E p \in Procs : \E k \in PathCodes : RListGet(p, k)
  \/ RCleanupScan
  \/ \E k \in PathCodes : RCleanupDel(k)
  \/ RCleanupDone
  \/ Tick

Next == NextJson \/ NextRedis

(* ======================= the limiter of the gin build ================== *)
\* Client addresses, and the pauses between two events.
IPs == {"10.0.0.1", "10.0.0.2"}

Pauses == {30, 61}

\* Variant: an entry is dropped after a third of the window.
staleEarly == rateLimitWindow \div 3

\* cleanRateLimiters drops an entry idle for more than 2 * time.Minute.
staleAfter == 2 * 60

\* The requests that reach the limiter: one that shortenHandler refuses, and
\* one that takes a code from the counter.
RefusedBody == [URL |-> BadURL, CustomCode |-> Empty, ExpirySeconds |-> 0]

LimiterBodies ==
  { RefusedBody, [URL |-> GoodURL, CustomCode |-> Empty, ExpirySeconds |-> 1] }

\* The address of the client that is followed alone.
ClientIP == "10.0.0.1"

\* Variants: a limiter that refuses nothing, and a refusal that writes the
\* answer but leaves the handler chain running.
NeverOverLimit(l) == FALSE

StatusJSONOnly(status) == [status |-> status, aborted |-> FALSE]

\* limiter.requests >= maxRequests (line 243).
OverLimit(l) == l.requests >= maxRequests

\* c.AbortWithStatusJSON(429, ...) (line 245): the answer is written and the
\* handlers after the middleware are not called.
AbortWithStatusJSON(status) == [status |-> status, aborted |-> TRUE]

\* The middleware returns without an answer: gin calls the next handler.
PassedOn == [status |-> 0, aborted |-> FALSE]

\* The admissions of ip in the rateLimitWindow seconds up to t, and the
\* history after one more at t.
Recent(ip, t) ==
  IF ip \in DOMAIN admitted
    THEN [ u \in { x \in DOMAIN admitted[ip] : t - x <= rateLimitWindow } |->
             admitted[ip][u] ]
    ELSE << >>

Admission(ip, t) ==
  Put(admitted, ip,
      Put(Recent(ip, t), t,
          IF t \in DOMAIN Recent(ip, t) THEN Recent(ip, t)[t] + 1 ELSE 1))

\* Lines 231-232: the client has no entry in the table tbl, or its entry is
\* older than the window.
StartsWindow(tbl, ip, t) ==
  ip \notin DOMAIN tbl \/ t - tbl[ip].lastRequest > rateLimitWindow

\* Lines 232-250: the table tbl after the attempt of ip at t.
Counted(tbl, ip, t) ==
  IF StartsWindow(tbl, ip, t)
    THEN Put(tbl, ip, [lastRequest |-> t, requests |-> 1])
    ELSE IF OverLimit(tbl[ip])
      THEN tbl
      ELSE Put(tbl, ip, [lastRequest |-> t, requests |-> tbl[ip].requests + 1])

\* router.POST("/shorten", rateLimitMiddleware(), shortenHandler), main line
\* 258, and rateLimitMiddleware, lines 227-252, from rlMutex.Lock() to the
\* unlock: the request is passed on to shortenHandler, or aborted with 429.
rateLimitMiddleware(p, ip, b) ==
  /\ variant = "redis"
  /\ Accepts(p)
  /\ isValidURL(b.URL) /\ b.CustomCode = Empty => GetNextID <= issued.base + MaxID
  /\ LET fresh == StartsWindow(rateLimiters, ip, now)
         r == IF ~fresh /\ OverLimit(rateLimiters[ip])
                THEN AbortWithStatusJSON(429) ELSE PassedOn
     IN  /\ rateLimiters' = Counted(rateLimiters, ip, now)
         /\ unevicted' = Counted(unevicted, ip, now)
         /\ IF fresh
              THEN /\ windowStart' = Put(windowStart, ip, now)
                   /\ admitted' = Admission(ip, now)
              ELSE IF OverLimit(rateLimiters[ip])
                THEN UNCHANGED << windowStart, admitted >>
                ELSE /\ admitted' = Admission(ip, now)
                     /\ UNCHANGED windowStart
         /\ IF r.aborted
              THEN Reply(p, "shorten", [status |-> r.status, ip |-> ip])
              ELSE Step(p, "s_begin", "shorten", b, Empty, NoData)
  /\ UNCHANGED << variant, mainVars, now, exited, jsonVars, Rdb, cleanNow, fileBytes, fd,
                  todo, results, issued, swept >>

\* The handler after the middleware: shortenHandler with the admitted request.
RShortenAdmitted(p) ==
  /\ pc[p] = "s_begin"
  /\ RShortenHandler(p, body[p])

\* main, lines 269-274, and cleanRateLimiters, lines 304-315, under rlMutex:
\* the goroutine wakes from time.Sleep and drops the stale entries.
cleanRateLimiters ==
  /\ ~exited
  /\ tasks.evictor = "running"
  /\ LET stale == { ip \in DOMAIN rateLimiters :
                     now - rateLimiters[ip].lastRequest > staleAfter }
     IN  /\ rateLimiters' = Remove(rateLimiters, stale)
         /\ windowStart' = Remove(windowStart, stale)
  /\ resp' = NoResp
  /\ UNCHANGED << variant, mainVars, now, admitted, unevicted, exited, jsonVars, Rdb, pc,
                  localVars, issued, swept >>

\* d seconds pass.
Elapse(d) ==
  /\ ~exited
  /\ now + d <= MaxElapsed
  /\ now' = now + d
  /\ resp' = NoResp
  /\ UNCHANGED << variant, mainVars, limVars, exited, jsonVars, Rdb, pc, localVars,
                  issued, swept >>

\* Two clients, whose requests shortenHandler refuses once admitted.
NextLimiter ==
  \/ \E ip \in IPs : rateLimitMiddleware(Client, ip, RefusedBody)
  \/ RShortenAdmitted(Client)
  \/ cleanRateLimiters
  \/ \E d \in Pauses : Elapse(d)

\* One client, with requests that allocate a code.
NextAdmission ==
  \/ \E b \in LimiterBodies : rateLimitMiddleware(Client, ClientIP, b)
  \/ RShortenAdmitted(Client)
  \/ RShortenSave(Client)
  \/ cleanRateLimiters
  \/ \E d \in Pauses : Elapse(d)

(* ====================== shutdown of the gin build ====================== *)
\* main, lines 286-292: the interrupt signal arrives on quit and main closes
\* stopCleanup.
Interrupt ==
  /\ variant = "redis"
  /\ ~exited
  /\ ~stopCleanup
  /\ stopCleanup' = TRUE
  /\ resp' = NoResp
  /\ UNCHANGED << variant, tasks, limVars, now, exited, jsonVars, Rdb, pc, localVars,
                  issued, swept >>

\* startCleanupTicker, lines 322-327: the goroutine is back at its select, the
\* case <-stop is ready, it is chosen and the goroutine returns.
TickerStopped ==
  /\ variant = "redis"
  /\ ~exited
  /\ stopCleanup
  /\ tasks.ticker = "running"
  /\ pc[Cleaner] = "idle"
  /\ tasks' = [tasks EXCEPT !.ticker = "returned"]
  /\ resp' = NoResp
  /\ UNCHANGED << variant, stopCleanup, limVars, now, exited, jsonVars, Rdb, pc,
                  localVars, issued, swept >>

\* main, lines 294-301: srv.Shutdown returns, once the handlers are done or
\* after its 5 seconds, and main returns (or log.Fatal ends it): the process
\* is over, whatever its goroutines were doing.
ServerExits ==
  /\ variant = "redis"
  /\ ~exited
  /\ stopCleanup
  /\ exited' = TRUE
  /\ pc' = Halted
  /\ resp' = NoResp
  /\ UNCHANGED << variant, mainVars, limVars, now, jsonVars, Rdb, op, body, code, data,
                  cleanNow, fileBytes, fd, todo, results, issued, swept >>

\* One client and the two background goroutines, up to the end of main.
NextShutdown ==
  \/ \E b \in LimiterBodies : rateLimitMiddleware(Client, ClientIP, b)
  \/ RShortenAdmitted(Client)
  \/ RShortenSave(Client)
  \/ RCleanupScan
  \/ \E k \in PathCodes : RListGet(Cleaner, k)
  \/ \E k \in PathCodes : RCleanupDel(k)
  \/ RCleanupDone
  \/ cleanRateLimiters
  \/ \E d \in Pauses : Elapse(d)
  \/ Interrupt
  \/ TickerStopped
  \/ ServerExits

InitJson == Init /\ variant = "json"

InitRedis == Init /\ variant = "redis"

SpecJson == InitJson /\ [][NextJson]_vars

SpecRedis == InitRedis /\ [][NextRedis]_vars

Spec == Init /\ [][Next]_vars

SpecLimiter == InitRedis /\ [][NextLimiter]_vars

SpecAdmission == InitRedis /\ [][NextAdmission]_vars

SpecShutdown == InitRedis /\ [][NextShutdown]_vars

(* =================== one client, every request body ==================== *)
\* loadStore, using-json/main.go lines 68-87: the counter and the map that a
\* start of the server reads from store.json; json.Unmarshal refuses a file
\* that is no complete document, and log.Fatalf ends the process.
loadStore(f) ==
  IF f.kind = "absent" THEN [ok |-> TRUE, idCounter |-> 0, urlStore |-> << >>]
  ELSE IF f.kind = "snapshot"
    THEN [ok |-> TRUE, idCounter |-> f.IDCounter, urlStore |-> f.URLStore]
    ELSE [ok |-> FALSE, idCounter |-> 0, urlStore |-> << >>]

\* Counter values a server starts with: a fresh store, and stores whose
\* earlier records were all deleted.
StartIDs == {0, 61, 3843}

\* expiry_seconds is an int64 of the caller's choice.
AnyTTLs == {-1, 0, 1}

ShortenBodies ==
  [URL : {GoodURL}, CustomCode : CustomCodes, ExpirySeconds : AnyTTLs]
    \cup {[URL |-> BadURL, CustomCode |-> Empty, ExpirySeconds |-> 0]}

\* The code the client deletes.
OwnCodes == {<<"1">>}

\* The server starts on the store an earlier run left: main calls loadStore
\* (using-json/main.go line 281); the gin build finds the counter key in Redis.
InitLoaded ==
  /\ variant \in {"json", "redis"}
  /\ \E n \in StartIDs :
       /\ storeFile = IF variant = "json" /\ n > 0
                         THEN [kind |-> "snapshot", IDCounter |-> n, URLStore |-> << >>]
                         ELSE NoFile
       /\ Rdb = IF variant = "redis" /\ n > 0
                   THEN Put(<< >>, CounterKey, [kind |-> "number", n |-> n])
                   ELSE << >>
       /\ issued = [NoneIssued EXCEPT !.base = n]
  /\ idCounter = loadStore(storeFile).idCounter
  /\ urlStore = loadStore(storeFile).urlStore
  /\ now = 0
  /\ exited = FALSE
  /\ mutex = NoProc
  /\ tmpFile = NoFile
  /\ pc = [p \in Procs |-> "idle"]
  /\ op = [p \in Procs |-> "none"]
  /\ body = [p \in Procs |-> NoBody]
  /\ code = [p \in Procs |-> Empty]
  /\ data = [p \in Procs |-> NoData]
  /\ cleanNow = 0
  /\ fileBytes = [p \in Procs |-> NoFile]
  /\ fd = [p \in Procs |-> "none"]
  /\ todo = [p \in Procs |-> {}]
  /\ results = [p \in Procs |-> {}]
  /\ resp = NoResp
  /\ rateLimiters = << >>
  /\ stopCleanup = FALSE
  /\ tasks = TasksRunning
  /\ windowStart = << >>
  /\ admitted = << >>
  /\ unevicted = << >>
  /\ swept = {}

\* One client sends one request after the other: shorten with any body, and
\* delete of a code it was given.
NextShorten ==
  \/ \E b \in ShortenBodies : JShortenBegin(Client, b)
  \/ JShortenCode(Client)
  \/ JShortenPut(Client)
  \/ SaveMarshal(Client)
  \/ SaveOpen(Client)
  \/ SaveWrite(Client)
  \/ SaveRename(Client)
  \/ \E c \in OwnCodes : JDelete(Client, c)
  \/ \E b \in ShortenBodies : RShortenBegin(Client, b)
  \/ RShortenSave(Client)
  \/ \E c \in OwnCodes : RDelete(Client, c)
  \/ Tick

SpecShorten == InitLoaded /\ [][NextShorten]_vars

(* ============================ the claims ============================== *)
\* The code-to-record mapping of either build: the map, or the keys of Redis
\* that hold a record.
Store ==
  IF variant = "json" THEN urlStore
  ELSE [ c \in { k \in DOMAIN Rdb : Rdb[k].kind = "object" } |->
           UnmarshalURLData(Rdb[c]).data ]

\* The step is one of goroutine p.
Acts(p) == pc'[p] # pc[p] \/ resp'.proc = p \/ todo'[p] # todo[p]

\* Goroutine p is inside shortenHandler's critical section.
InShortenSection(p) ==
  /\ op[p] = "shorten"
  /\ pc[p] \in {"s_put", "sv_marshal", "sv_open", "sv_write", "sv_rename"}

\* The step is the first one of a redirect of code c by p.
RedirectBegins(p, c) == JRedirectCheck(p, c) \/ RRedirectGet(p, c)

ConflictStep(p) ==
  /\ JShortenCode(p) /\ isValidCode(body[p].CustomCode)
       => /\ body[p].CustomCode \in DOMAIN Store <=> resp'.status = 409
          /\ resp'.status = 409 => Store' = Store /\ idCounter' = idCounter
  /\ \A b \in { x \in Bodies : isValidURL(x.URL) /\ isValidCode(x.CustomCode) } :
       RShortenBegin(p, b)
         => /\ b.CustomCode \in DOMAIN Store <=> resp'.status = 409
            /\ resp'.status = 409 => Rdb' = Rdb

ConflictLeavesRecord == [][\A p \in Workers : Acts(p) => ConflictStep(p)]_vars

ConflictAnswered ==
  /\ resp.handler = "shorten"
  /\ resp.status = 409
  /\ Store # << >>

\* C3: in the in-process build a shorten request passes its existence check
\* only while no other shorten request is between its own check and its
\* return, it is refused with 409 exactly when the code is in the map, and its
\* insert stores its own record while it holds the mutex.
CriticalSectionStep(p) ==
  /\ JShortenCode(p) /\ isValidCode(body[p].CustomCode)
       => /\ \A q \in Workers \ {p} : ~InShortenSection(q)
          /\ resp'.status = 409 <=> body[p].CustomCode \in DOMAIN urlStore
          /\ resp'.status # 409 => mutex' = p /\ code'[p] = body[p].CustomCode
  /\ JShortenPut(p)
       => /\ mutex = p
          /\ urlStore'[code[p]] = NewURLData(body[p], now)
          /\ \A q \in Workers \ {p} : ~InShortenSection(q)

CheckThenInsertAtomic ==
  [][\A p \in Workers : Acts(p) => CriticalSectionStep(p)]_vars

TwoShortenSameCode ==
  \E p, q \in Workers :
    /\ p # q
    /\ pc[p] = "s_lock" /\ body[p].CustomCode # Empty
    /\ pc[q] = "s_put" /\ code[q] = body[p].CustomCode
    /\ code[q] \notin DOMAIN urlStore

\* C4: an attempt of a client with an entry, made more than rateLimitWindow
\* after the attempt that last set its count to 1, sets the count to 1 and is
\* admitted; an attempt inside the window is refused exactly when maxRequests
\* attempts were admitted in it.
LimiterStep(p, ip) ==
  (\E b \in LimiterBodies : rateLimitMiddleware(p, ip, b)) /\ ip \in DOMAIN rateLimiters
    => IF now - windowStart[ip] > rateLimitWindow
         THEN rateLimiters'[ip].requests = 1 /\ pc'[p] = "s_begin"
         ELSE resp'.status = 429 <=> rateLimiters[ip].requests >= maxRequests

WindowFromItsStart ==
  [][Acts(Client) => \A ip \in IPs : LimiterStep(Client, ip)]_vars

\* C5: when a sweep returns, no code whose record was expired when the sweep
\* began holds a record expired at the sweep's time, and every record a
\* sweep step removes was expired at that time.
SweepReturns == pc[Cleaner] \notin {"idle", "exited"} /\ pc'[Cleaner] = "idle"

SweepRemoves == JCleanup \/ \E k \in PathCodes : RCleanupDel(k)

SweepStep ==
  /\ SweepReturns
       => \A c \in swept \cap DOMAIN Store' : ~IsExpired(Store'[c], cleanNow)
  /\ SweepRemoves
       => \A c \in DOMAIN Store \ DOMAIN Store' : IsExpired(Store[c], cleanNow')

SweepRemovesExactlyExpired == [][SweepStep]_vars

\* C6: a redirect answers 410, info and list report is_expired, and the sweep
\* picks a record for removal, exactly when now > createdAt + ttlSeconds.
StrictStep(p) ==
  /\ \A c \in PathCodes :
       /\ RedirectBegins(p, c) /\ c \in DOMAIN Store
            => (resp'.status = 410 <=> IsExpired(Store[c], now))
       /\ (JInfo(p, c) \/ RInfo(p, c)) /\ c \in DOMAIN Store
            => resp'.is_expired = IsExpired(Store[c], now)
       /\ RListGet(p, c) /\ c \in DOMAIN Store
            => \E e \in (IF pc'[p] = "idle" THEN resp'.links ELSE results'[p]) :
                 e.code = c /\ e.is_expired = IsExpired(Store[c], now)
       /\ RListGet(p, c) /\ pc'[p] = "c_del"
            => todo'[p] = { e.code : e \in { x \in results'[p] : cleanNow > x.unix } }
  /\ JList(p)
       => resp'.links = { [code |-> c, is_expired |-> IsExpired(Store[c], now)] :
                          c \in DOMAIN Store }
  /\ JCleanup
       => DOMAIN Store' = { c \in DOMAIN Store : ~IsExpired(Store[c], now) }

ExpiryIsStrict == [][\A p \in Procs : Acts(p) => StrictStep(p)]_vars

NotExpiredAtDeadline ==
  /\ resp.handler = "info"
  /\ resp.status = 200
  /\ resp.code \in DOMAIN Store
  /\ now = Store[resp.code].CreatedAt + Store[resp.code].Expiry
  /\ ~resp.is_expired

\* C7: a redirect of a code whose record is expired answers 410 and returns
\* at once; the store, and in the in-process build the two files, stay as
\* they were.
GoneStep(p, c) ==
  RedirectBegins(p, c) /\ c \in DOMAIN Store /\ IsExpired(Store[c], now)
    => /\ resp' = [proc |-> p, handler |-> "redirect", status |-> 410]
       /\ pc'[p] = "idle"
       /\ Store' = Store
       /\ Rdb' = Rdb
       /\ storeFile' = storeFile /\ tmpFile' = tmpFile

ExpiredRedirectIsGone ==
  [][\A p \in Workers : Acts(p) => \A c \in PathCodes : GoneStep(p, c)]_vars

GoneAnswered ==
  /\ resp.handler = "redirect"
  /\ resp.status = 410
  /\ \E c \in DOMAIN Store : IsExpired(Store[c], now) /\ Store[c].Clicks > 0

\* C8: a delete of a code that is no key of the store answers 404 and leaves
\* the store as it was; a delete of a present code removes that record alone
\* and does not answer 404.
DeleteStep(p, c) ==
  JDelete(p, c) \/ RDelete(p, c)
    => IF c \in DOMAIN Store
         THEN Store' = Remove(Store, {c}) /\ resp'.status # 404
         ELSE resp'.status = 404 /\ Store' = Store /\ Rdb' = Rdb

DeleteReportsAbsence ==
  [][\A p \in Workers : Acts(p) => \A c \in PathCodes : DeleteStep(p, c)]_vars

\* C9: store.json is absent or holds one complete snapshot.
StoreFileWhole == storeFile.kind \in {"absent", "snapshot"}

\* C11: a shorten request with a good URL and no custom code, on a store
\* whose counter is n, takes the code that is n+1 written in base 62 and sets
\* the counter to n+1; the record it stores under that code has the URL,
\* clicks 0 and expiry 604800 when expiry_seconds is 0 or missing, else
\* expiry_seconds; and it answers with that code.
Counter ==
  IF variant = "json" THEN idCounter
  ELSE IF CounterKey \in DOMAIN Rdb /\ Rdb[CounterKey].kind = "number"
    THEN Rdb[CounterKey].n ELSE 0

Base62Digit(ch) == (CHOOSE i \in 1..62 : base62[i] = ch) - 1

RECURSIVE Base62Value(_)
Base62Value(s) ==
  IF s = << >> THEN 0
  ELSE Base62Value(SubSeq(s, 1, Len(s) - 1)) * 62 + Base62Digit(s[Len(s)])

IsBase62Of(s, n) ==
  /\ isValidCode(s)
  /\ Len(s) = 1 \/ s[1] # "0"
  /\ Base62Value(s) = n

ContractRecord(b, t) ==
  [LongURL |-> b.URL, Clicks |-> 0, CreatedAt |-> t,
   Expiry |-> IF b.ExpirySeconds = 0 THEN 604800 ELSE b.ExpirySeconds]

ShortenContractStep(p) ==
  /\ JShortenCode(p) /\ body[p].CustomCode = Empty
       => /\ IsBase62Of(code'[p], Counter + 1)
          /\ Counter' = Counter + 1
  /\ JShortenPut(p) /\ body[p].CustomCode = Empty
       => /\ code[p] \in DOMAIN Store'
          /\ Store'[code[p]] = ContractRecord(body[p], now)
  /\ SaveRename(p) /\ op[p] = "shorten" /\ ~exited'
       => resp'.status = 200 /\ resp'.short_url = code[p]
  /\ \A b \in { x \in ShortenBodies : isValidURL(x.URL) /\ x.CustomCode = Empty } :
       RShortenBegin(p, b)
         => /\ IsBase62Of(code'[p], Counter + 1)
            /\ Counter' = Counter + 1
            /\ data'[p] = ContractRecord(b, now)
  /\ RShortenSave(p)
       => /\ code[p] \in DOMAIN Store'
          /\ Store'[code[p]] = data[p]
          /\ resp'.status = 200 /\ resp'.short_url = code[p]

ShortenContract == [][Acts(Client) => ShortenContractStep(Client)]_vars

DefaultExpiryStored ==
  /\ resp.handler = "shorten"
  /\ resp.status = 200
  /\ resp.short_url = <<"1", "0">>
  /\ resp.short_url \in DOMAIN Store
  /\ Store[resp.short_url].Expiry = 604800
  /\ Store[resp.short_url].Clicks = 0

\* C10: no step other than the insert of a shorten request lowers the clicks
\* stored under a code.
ShortenStores == \E p \in Workers : JShortenPut(p) \/ RShortenSave(p)

ClicksStep ==
  ~ShortenStores
    => \A c \in DOMAIN Store \cap DOMAIN Store' :
         Store'[c].Clicks >= Store[c].Clicks

ClicksNeverDecrease == [][ClicksStep]_vars

\* C12: in the in-process build every step in which a goroutine reads or
\* writes urlStore or idCounter is taken while that goroutine holds the mutex:
\* the mutex is already its own, or it is free and the step is one that
\* locks it.
MapAccess(p) ==
  \/ JShortenCode(p) \/ JShortenPut(p) \/ SaveMarshal(p)
  \/ \E c \in PathCodes : JRedirectCheck(p, c) \/ JInfo(p, c) \/ JDelete(p, c)
  \/ JRedirectRead(p) \/ JRedirectWrite(p)
  \/ JList(p)
  \/ p = Cleaner /\ JCleanup

LockingStep(p) ==
  \/ JShortenCode(p)
  \/ \E c \in PathCodes : JInfo(p, c) \/ JDelete(p, c)
  \/ JList(p)
  \/ p = Cleaner /\ JCleanup

AccessUnderLock ==
  [][\A p \in Procs :
       Acts(p) /\ MapAccess(p) => mutex = p \/ (mutex = NoProc /\ LockingStep(p))]_vars

\* C13: when a shorten request stores its record, the code it stores under
\* is no key of the store; in particular a code taken from the counter is
\* new, so that no record of an earlier shorten request is overwritten.
ShortenStoresAt(p) == JShortenPut(p) \/ RShortenSave(p)

FreshCodeStep(p) == ShortenStoresAt(p) => code[p] \notin DOMAIN Store

SystemCodeFresh == [][Acts(Client) => FreshCodeStep(Client)]_vars

\* C14: in the in-process build, whenever no handler and no sweep is running,
\* a reload of store.json gives the counter and the map that memory holds.
Quiet == InFlight = {} /\ ~exited

PersistedEqualsMemory ==
  variant = "json" /\ Quiet
    => /\ loadStore(storeFile).ok
       /\ loadStore(storeFile).idCounter = idCounter
       /\ loadStore(storeFile).urlStore = urlStore

\* C15: for each client, the attempts admitted in any rateLimitWindow seconds
\* are at most 10, twice maxRequests.  (An interval of that length holding
\* more would end at an admission, and the history keeps the admissions of
\* the rateLimitWindow seconds up to the last one.)
Total(a) == SumOver(DOMAIN a, a)

AdmittedWithinTwiceMax ==
  \A ip \in DOMAIN admitted :
    /\ Total(admitted[ip]) <= 10
    /\ Total(admitted[ip]) <= 2 * maxRequests

RefusedAtMax ==
  /\ resp.handler = "shorten"
  /\ resp.status = 429
  /\ Total(admitted[resp.ip]) = maxRequests

\* C17: an attempt that the limiter refuses is answered 429 and returns
\* without a call of shortenHandler: the counter, the records and the
\* client's limiter entry stay as they were, and no code is allocated.
OverTheLimit(ip) ==
  /\ ip \in DOMAIN rateLimiters
  /\ now - rateLimiters[ip].lastRequest <= rateLimitWindow
  /\ rateLimiters[ip].requests >= maxRequests

RefusedStep(p, ip) ==
  (\E b \in LimiterBodies : rateLimitMiddleware(p, ip, b)) /\ OverTheLimit(ip)
    => /\ resp' = [proc |-> p, handler |-> "shorten", status |-> 429, ip |-> ip]
       /\ pc'[p] = "idle"
       /\ Rdb' = Rdb /\ Counter' = Counter /\ Store' = Store
       /\ issued' = issued
       /\ rateLimiters' = rateLimiters

RefusedNeverAllocates ==
  [][Acts(Client) => \A ip \in IPs : RefusedStep(Client, ip)]_vars

RefusedAfterAllocation ==
  /\ resp.handler = "shorten"
  /\ resp.status = 429
  /\ Counter = 1
  /\ Store # << >>

\* C16: the sweep task and the eviction task both shut down cooperatively.
\* The sweep task observes the stop only between two sweeps, no sweep and no
\* eviction cycle begins once its task has returned, and when main returns
\* after the stop signal both tasks have returned, with no sweep under way.
SweepUnderWay == pc[Cleaner] \notin {"idle", "exited"}

ShutdownStep ==
  /\ TickerStopped => ~SweepUnderWay
  /\ RCleanupScan => tasks.ticker = "running"
  /\ cleanRateLimiters => tasks.evictor = "running"
  /\ ServerExits => /\ tasks.ticker = "returned"
                    /\ tasks.evictor = "returned"
                    /\ ~SweepUnderWay

CooperativeShutdown == [][ShutdownStep]_vars

\* C18: every record that a shorten stores has a positive Expiry and
\* non-negative Clicks, whatever expiry_seconds the request carried, so the
\* record's deadline CreatedAt + Expiry is not earlier than CreatedAt.
PositiveTTLStep(p) ==
  ShortenStoresAt(p) =>
    /\ Store'[code[p]].Expiry > 0
    /\ Store'[code[p]].Clicks >= 0
    /\ Store'[code[p]].CreatedAt + Store'[code[p]].Expiry >= Store'[code[p]].CreatedAt

StoredTTLPositive == [][Acts(Client) => PositiveTTLStep(Client)]_vars

\* C19: the allocation counter changes only in the step of a shorten without
\* custom code that takes the next value, and then by exactly one; every other
\* step leaves it as it is, and in the Redis build the counter key is neither
\* removed nor replaced by a value that is not a number.
SystemShortenAllocates ==
  \E p \in Workers :
    \/ body[p].CustomCode = Empty /\ JShortenCode(p)
    \/ \E b \in Bodies : b.CustomCode = Empty /\ RShortenBegin(p, b)

CounterStep ==
  /\ Counter' # Counter => SystemShortenAllocates /\ Counter' = Counter + 1
  /\ variant = "redis" /\ CounterKey \in DOMAIN Rdb
       => CounterKey \in DOMAIN Rdb' /\ Rdb'[CounterKey].kind = "number"

CounterOnlyAllocated == [][CounterStep]_vars

\* C20: a record that was removed stays removed.  A code that is absent from
\* the store, after a delete or a sweep took it out, becomes present again
\* only in the store step of a shorten for that code; no step of a redirect
\* that was under way during the removal brings it back.
ReappearStep ==
  \A c \in DOMAIN Store' \ DOMAIN Store :
    \E p \in Workers : ShortenStoresAt(p) /\ code[p] = c

DeletedStaysDeleted == [][ReappearStep]_vars

\* C21: eviction is transparent to admission.  cleanRateLimiters removes the
\* entries whose last admitted attempt is more than 2 minutes old and no
\* other, and every attempt is admitted or refused as it would be had
\* cleanRateLimiters never run.
EvictStep ==
  cleanRateLimiters =>
    /\ \A ip \in DOMAIN rateLimiters \ DOMAIN rateLimiters' :
         now - rateLimiters[ip].lastRequest > 2 * 60
    /\ \A ip \in DOMAIN rateLimiters' :
         ip \in DOMAIN rateLimiters /\ rateLimiters'[ip] = rateLimiters[ip]

AttemptStep(p, ip) ==
  (\E b \in LimiterBodies : rateLimitMiddleware(p, ip, b))
    => LET refused == resp'.proc = p /\ resp'.status = 429
           refusedUnevicted == /\ ~StartsWindow(unevicted, ip, now)
                               /\ unevicted[ip].requests >= maxRequests
       IN  /\ refused <=> refusedUnevicted
           /\ ~refused => rateLimiters'[ip] = unevicted'[ip]

EvictTransparent ==
  [][EvictStep /\ (Acts(Client) => \A ip \in IPs : AttemptStep(Client, ip))]_vars

\* The entry of a client that had used up its window has been dropped, and
\* the entry of another client, seen more recently, has been kept.
EvictedOnlyStale ==
  /\ \E ip \in DOMAIN unevicted \ DOMAIN rateLimiters :
       unevicted[ip].requests >= maxRequests
  /\ \E ip \in DOMAIN rateLimiters :
       now - rateLimiters[ip].lastRequest <= 2 * 60

=============================================================================
